---- MODULE Spec2Model ----
(***************************************************************************)
(* Receipt validation of iap-rs: the App Store adapter (src/apple.rs), the *)
(* Play Store adapter (src/google.rs) and UnityPurchaseValidator::validate *)
(* (src/lib.rs).                                                           *)
(*                                                                         *)
(* One validate call is a small state machine: it suspends at every        *)
(* .await on the HTTP client or on the OAuth authenticator, and the answer *)
(* of the remote side is a nondeterministic input of the step that         *)
(* resumes it.                                                             *)
(*                                                                         *)
(* Option<T> is a sequence of length at most one: None is <<>> and Some(x) *)
(* is <<x>>.  The strings that the code parses as integers are sequences   *)
(* of characters, and ParseI64 parses them as str::parse::<i64> does.      *)
(* Fields of the responses that no code path reads (environment,           *)
(* latest_receipt, latest_receipt_info, is-retryable, the prices, ...) are *)
(* left out.                                                               *)
(***************************************************************************)
EXTENDS Integers, Sequences, FiniteSets, TLC

VARIABLES
    config,       \* UnityPurchaseValidator { secret, apple_urls, service_account_key }
    receipt,      \* the UnityPurchaseReceipt handed to validate
    now,          \* Utc::now().timestamp_millis() of the call
    pc,           \* where the call is suspended
    prod,         \* the prod flag of the running fetch_apple_response
    requests,     \* the HTTP requests sent so far, in order
    answers,      \* what came back for them, in order (history)
    tokenCalls,   \* token requests made to the authenticator
    fetchResult,  \* what fetch_*_receipt_data_with_* returned
    result,       \* what validate (or an evaluator called alone) returned
    failure,      \* the kind of failure the call met, "none" if none (history)
    wire,         \* a value, its JSON text and the value read back from it
    sched         \* the calls that share the validator: which one runs, the
                  \* suspended ones, and what each was given (history)

vars == <<config, receipt, now, pc, prod, requests, answers, tokenCalls,
          fetchResult, result, failure, wire, sched>>

----------------------------------------------------------------------------
(* Bounds of the model *)

\* longest receipt.in_app list a server response carries
MaxRecords == 2

\* the remote side answers 21007 only while fewer requests than this were sent
MaxRequests == 3

----------------------------------------------------------------------------
(* Option and Result *)

None == <<>>

Some(x) == <<x>>

IsSome(o) == Len(o) = 1

IsNone(o) == Len(o) = 0

Unwrap(o) == o[1]

Ok(v) == [tag |-> "Ok", val |-> v]

Err(e) == [tag |-> "Err", err |-> e]

Pending == [tag |-> "Pending"]

IsOk(r) == r.tag = "Ok"

IsErr(r) == r.tag = "Err"

\* PurchaseResponse { valid, product_id }
PurchaseResponse(valid, product_id) == [valid |-> valid, product_id |-> product_id]

\* (bool, Option<String>)::default() and PurchaseResponse::default()
PurchaseResponseDefault == PurchaseResponse(FALSE, None)

----------------------------------------------------------------------------
(* str::parse::<i64> *)

Digits == {"0", "1", "2", "3", "4", "5", "6", "7", "8", "9"}

DigitVal(c) ==
    CASE c = "0" -> 0 [] c = "1" -> 1 [] c = "2" -> 2 [] c = "3" -> 3
      [] c = "4" -> 4 [] c = "5" -> 5 [] c = "6" -> 6 [] c = "7" -> 7
      [] c = "8" -> 8 [] c = "9" -> 9

RECURSIVE DigitsValue(_)
DigitsValue(s) ==
    IF Len(s) = 0 THEN 0
    ELSE 10 * DigitsValue(SubSeq(s, 1, Len(s) - 1)) + DigitVal(s[Len(s)])

AllDigits(s) == \A i \in 1..Len(s) : s[i] \in Digits

\* An optional sign, then at least one digit and nothing but digits.  The
\* strings of the model are short, so the value always fits 64 bits; a value
\* that does not fit is an Err like any other unparsable string.
ParseI64(s) ==
    IF Len(s) = 0 THEN Err("ParseIntError")
    ELSE IF s[1] \in {"+", "-"}
         THEN LET d == SubSeq(s, 2, Len(s))
              IN  IF Len(d) = 0 \/ ~AllDigits(d) THEN Err("ParseIntError")
                  ELSE IF s[1] = "-" THEN Ok(0 - DigitsValue(d))
                  ELSE Ok(DigitsValue(d))
         ELSE IF AllDigits(s) THEN Ok(DigitsValue(s))
         ELSE Err("ParseIntError")

\* Result::unwrap_or_default on an i64
UnwrapOrDefaultI64(r) == IF IsOk(r) THEN r.val ELSE 0

\* Option<String>::unwrap_or_default
UnwrapOrDefaultStr(o) == IF IsSome(o) THEN Unwrap(o) ELSE <<>>

----------------------------------------------------------------------------
(* src/apple.rs: constants and the response types *)

APPLE_STATUS_CODE_TEST == 21007

APPLE_STATUS_VALID == 0

APPLE_PROD_VERIFY_RECEIPT == "https://buy.itunes.apple.com"

APPLE_TEST_VERIFY_RECEIPT == "https://sandbox.itunes.apple.com"

\* AppleUrls::default()
AppleUrlsDefault ==
    [production |-> APPLE_PROD_VERIFY_RECEIPT, sandbox |-> APPLE_TEST_VERIFY_RECEIPT]

\* AppleRequest { receipt-data, password }
AppleRequest(receipt_data, password) ==
    [receipt_data |-> receipt_data, password |-> password]

\* AppleInAppReceipt::is_subscription
AppleInAppReceipt_is_subscription(r) == IsSome(r.expires_date_ms)

\* Iterator::find: the first element that satisfies the predicate
RECURSIVE FindFirst(_, _)
FindFirst(s, tid) ==
    IF Len(s) = 0 THEN None
    ELSE IF s[1].transaction_id = Some(tid) THEN Some(s[1])
    ELSE FindFirst(Tail(s), tid)

\* AppleReceipt::get_transaction
get_transaction(rcpt, transaction_id) ==
    IF IsNone(rcpt.in_app) THEN None
    ELSE FindFirst(Unwrap(rcpt.in_app), transaction_id)

\* the key of the max_by closure of AppleReceipt::get_latest_receipt
ExpiryKey(r) == UnwrapOrDefaultI64(ParseI64(UnwrapOrDefaultStr(r.expires_date_ms)))

\* mutant: the comparison is turned around, the fold keeps the smaller key
RECURSIVE MaxByFold_KeepsLess(_, _)
MaxByFold_KeepsLess(best, s) ==
    IF Len(s) = 0 THEN best
    ELSE MaxByFold_KeepsLess(IF ExpiryKey(best) < ExpiryKey(s[1]) THEN best ELSE s[1],
                             Tail(s))

\* Iterator::max_by: a fold that keeps the accumulator only when it compares
\* Greater, so of several maximal elements the last one is returned
RECURSIVE MaxByFold(_, _)
MaxByFold(best, s) ==
    IF Len(s) = 0 THEN best
    ELSE MaxByFold(IF ExpiryKey(best) > ExpiryKey(s[1]) THEN best ELSE s[1], Tail(s))

MaxBy(s) == IF Len(s) = 0 THEN None ELSE Some(MaxByFold(s[1], Tail(s)))

\* AppleReceipt::get_latest_receipt
AppleReceipt_get_latest_receipt(rcpt) ==
    IF IsNone(rcpt.in_app) THEN None ELSE MaxBy(Unwrap(rcpt.in_app))

\* AppleResponse::get_receipt
get_receipt(response, transaction_id) ==
    IF IsNone(response.receipt) THEN None
    ELSE get_transaction(Unwrap(response.receipt), transaction_id)

\* AppleResponse::get_latest_receipt
get_latest_receipt(response) ==
    IF IsNone(response.receipt) THEN None
    ELSE AppleReceipt_get_latest_receipt(Unwrap(response.receipt))

\* AppleResponse::get_product_id
get_product_id(response, transaction_id) ==
    LET r == get_receipt(response, transaction_id)
    IN  IF IsNone(r) THEN None ELSE Unwrap(r).product_id

\* mutant: any record that carries the transaction id makes a subscription
is_subscription_AnyMatch(response, transaction_id) ==
    \/ transaction_id = ""
    \/ IsSome(get_receipt(response, transaction_id))

\* AppleResponse::is_subscription
is_subscription(response, transaction_id) ==
    \/ transaction_id = ""
    \/ LET r == get_receipt(response, transaction_id)
       IN  IsSome(r) /\ AppleInAppReceipt_is_subscription(Unwrap(r))

\* mutant: an expiry equal to the clock still counts as valid
validate_expiration_NotStrict(now_ms, in_app_receipt) ==
    IF IsNone(in_app_receipt) THEN PurchaseResponseDefault
    ELSE LET r == Unwrap(in_app_receipt)
         IN  IF IsNone(r.expires_date_ms) THEN PurchaseResponseDefault
             ELSE LET p == ParseI64(Unwrap(r.expires_date_ms))
                  IN  IF IsErr(p) THEN PurchaseResponseDefault
                      ELSE PurchaseResponse(p.val >= now_ms, r.product_id)

\* mutant: the product id is reported although the expiry does not parse
validate_expiration_KeepsProductId(now_ms, in_app_receipt) ==
    IF IsNone(in_app_receipt) THEN PurchaseResponseDefault
    ELSE LET r == Unwrap(in_app_receipt)
         IN  IF IsNone(r.expires_date_ms) THEN PurchaseResponse(FALSE, r.product_id)
             ELSE LET p == ParseI64(Unwrap(r.expires_date_ms))
                  IN  IF IsErr(p) THEN PurchaseResponse(FALSE, r.product_id)
                      ELSE PurchaseResponse(p.val > now_ms, r.product_id)

\* validate_expiration: (valid, product_id) of one in-app record
validate_expiration(now_ms, in_app_receipt) ==
    IF IsNone(in_app_receipt) THEN PurchaseResponseDefault
    ELSE LET r == Unwrap(in_app_receipt)
         IN  IF IsNone(r.expires_date_ms) THEN PurchaseResponseDefault
             ELSE LET p == ParseI64(Unwrap(r.expires_date_ms))
                  IN  IF IsErr(p) THEN PurchaseResponseDefault
                      ELSE PurchaseResponse(p.val > now_ms, r.product_id)

\* mutant: an invalid matching record is final, the latest one is not tried
validate_apple_subscription_NoFallback(response, transaction_id, now_ms) ==
    IF transaction_id = ""
    THEN validate_expiration(now_ms, get_latest_receipt(response))
    ELSE validate_expiration(now_ms, get_receipt(response, transaction_id))

\* validate_apple_subscription
validate_apple_subscription(response, transaction_id, now_ms) ==
    IF transaction_id = ""
    THEN validate_expiration(now_ms, get_latest_receipt(response))
    ELSE LET first == validate_expiration(now_ms, get_receipt(response, transaction_id))
         IN  IF ~first.valid
             THEN validate_expiration(now_ms, get_latest_receipt(response))
             ELSE first

\* mutant: the status alone decides, whether or not a record was found
validate_apple_package_StatusOnly(response, transaction_id) ==
    PurchaseResponse(response.status = APPLE_STATUS_VALID,
                     get_product_id(response, transaction_id))

\* validate_apple_package
validate_apple_package(response, transaction_id) ==
    LET product_id == get_product_id(response, transaction_id)
    IN  PurchaseResponse(response.status = APPLE_STATUS_VALID /\ IsSome(product_id),
                         get_product_id(response, transaction_id))

----------------------------------------------------------------------------
(* src/google.rs: the payload, the request URI and the evaluators *)

\* serde_json::from_str of a JSON text: a text is either malformed or the
\* object it encodes; [ok |-> FALSE] is a text serde_json rejects
Malformed == [ok |-> FALSE]

\* GooglePlayData::from: the outer envelope { json, signature, skuDetails }
GooglePlayData_from(payload) ==
    IF payload.ok
    THEN Ok([json |-> payload.json, sku_details |-> payload.sku_details])
    ELSE Err("SerdeError")

\* SkuType: the only two renames the derive accepts
SkuTypeNames == {"subs", "inapp"}

\* mutant: a type that is not a SkuType is taken for a product
get_sku_details_DefaultsInapp(data) ==
    IF ~data.sku_details.ok THEN Err("SerdeError")
    ELSE IF data.sku_details.type \in SkuTypeNames
    THEN Ok([sku_type |-> data.sku_details.type])
    ELSE Ok([sku_type |-> "inapp"])

\* GooglePlayData::get_sku_details: SkuDetails { type: SkuType }
get_sku_details(data) ==
    IF data.sku_details.ok /\ data.sku_details.type \in SkuTypeNames
    THEN Ok([sku_type |-> data.sku_details.type])
    ELSE Err("SerdeError")

\* GooglePlayData::get_uri
get_uri(data, sku_type) ==
    IF ~data.json.ok THEN Err("SerdeError")
    ELSE Ok([package_name |-> data.json.package_name,
             segment      |-> IF sku_type = "subs" THEN "subscriptions" ELSE "products",
             product_id   |-> data.json.product_id,
             token        |-> data.json.token,
             suffix       |-> ""])

\* mutant: an expiry equal to the clock still counts as valid
validate_google_subscription_NotStrict(response, now_ms) ==
    LET expiry_time == ParseI64(UnwrapOrDefaultStr(response.expiry_time))
    IN  IF IsErr(expiry_time) THEN Err("ParseIntError")
        ELSE Ok(PurchaseResponse(expiry_time.val >= now_ms, response.product_id))

\* mutant: an expiry that does not parse counts as 0 instead of an error
validate_google_subscription_Lenient(response, now_ms) ==
    LET expiry_time == ParseI64(UnwrapOrDefaultStr(response.expiry_time))
    IN  Ok(PurchaseResponse(UnwrapOrDefaultI64(expiry_time) > now_ms, response.product_id))

\* validate_google_subscription
validate_google_subscription(response, now_ms) ==
    LET expiry_time == ParseI64(UnwrapOrDefaultStr(response.expiry_time))
    IN  IF IsErr(expiry_time) THEN Err("ParseIntError")
        ELSE Ok(PurchaseResponse(expiry_time.val > now_ms, response.product_id))

\* mutant: an absent purchase_state counts as purchased
validate_google_package_AbsentIsPurchased(response) ==
    PurchaseResponse(IsNone(response.purchase_state) \/ Unwrap(response.purchase_state) = 0,
                     response.product_id)

\* validate_google_package
validate_google_package(response) ==
    PurchaseResponse(IsSome(response.purchase_state) /\ Unwrap(response.purchase_state) = 0,
                     response.product_id)

\* mutant: the product id of the payload replaces the one the store sent
BackfillProductId_Overwrites(response, data) ==
    IF IsSome(data)
    THEN IF ~Unwrap(data).json.ok THEN Err("SerdeError")
         ELSE Ok([response EXCEPT !.product_id = Some(Unwrap(data).json.product_id)])
    ELSE Ok(response)

\* the tail of fetch_google_receipt_data_with_uri: the product id of the
\* response is filled in from the payload when the store did not send one
BackfillProductId(response, data) ==
    IF IsNone(response.product_id) /\ IsSome(data)
    THEN IF ~Unwrap(data).json.ok THEN Err("SerdeError")
         ELSE Ok([response EXCEPT !.product_id = Some(Unwrap(data).json.product_id)])
    ELSE Ok(response)

----------------------------------------------------------------------------
(* The inputs of the model *)

ProductIds == {None, Some("p1"), Some("p2")}

RecordTransactionIds == {None, Some("t1")}

\* expires_date_ms / expiryTimeMillis: absent, not a number, and the numbers
\* -1 and 0 (before the clock, not above the key 0 that get_latest_receipt
\* gives to what does not parse), 1 (exactly the clock, above that key) and
\* 2 (after the clock)
ExpiryStrings ==
    {None, Some(<<"x">>), Some(<<"-", "1">>), Some(<<"0">>), Some(<<"1">>), Some(<<"2">>)}

\* Utc::now().timestamp_millis(): the clock is after the epoch
NowValues == {1}

StatusCodes == {APPLE_STATUS_VALID, APPLE_STATUS_CODE_TEST, 333}

AppleInAppReceipts ==
    [product_id : ProductIds, transaction_id : RecordTransactionIds,
     expires_date_ms : ExpiryStrings]

InAppLists == UNION {[1..n -> AppleInAppReceipts] : n \in 0..MaxRecords}

AppleReceipts == {[in_app |-> None]} \cup {[in_app |-> Some(l)] : l \in InAppLists}

OptAppleReceipts == {None} \cup {Some(r) : r \in AppleReceipts}

AppleResponses == [status : StatusCodes, receipt : OptAppleReceipts]

GoogleResponses ==
    [expiry_time : ExpiryStrings, product_id : {None, Some("p1")},
     purchase_state : {None, Some(0), Some(1), Some(2)}]

GoogleJsonTexts ==
    {Malformed,
     [ok |-> TRUE, package_name |-> "com.app", product_id |-> "sku1", token |-> "tok"],
     [ok |-> TRUE, package_name |-> "com.other", product_id |-> "sku2", token |-> "tok2"]}

SkuDetailsTexts ==
    {Malformed} \cup {[ok |-> TRUE, type |-> t] : t \in {"subs", "inapp", "rental"}}

GooglePayloads ==
    {Malformed} \cup
    {[ok |-> TRUE, json |-> j, sku_details |-> s] : j \in GoogleJsonTexts, s \in SkuDetailsTexts}

\* the payload of an App Store receipt is a base64 blob: a text that is sent
\* as it is and that is not the JSON of a GooglePlayData
AppleBlob == [ok |-> FALSE, blob |-> "receipt-data"]

\* the transaction id is empty, "t1" or "t2"; "t1" matches no record when no
\* record of the response carries it, and "t2" never matches: the records
\* that carry an id carry "t1"
AppleUnityReceipts ==
    {[store |-> "AppleAppStore", payload |-> AppleBlob, transaction_id |-> t] :
        t \in {"", "t1", "t2"}}

GoogleUnityReceipts ==
    {[store |-> "GooglePlay", payload |-> p, transaction_id |-> "t1"] : p \in GooglePayloads}

UnityPurchaseReceipts == AppleUnityReceipts \cup GoogleUnityReceipts

\* UnityPurchaseValidator::default(), and the validator after
\* set_apple_secret and set_google_service_account_key
Configs ==
    {[secret |-> None, apple_urls |-> AppleUrlsDefault, service_account_key |-> None],
     [secret |-> Some("secret"), apple_urls |-> AppleUrlsDefault,
      service_account_key |-> Some("key")]}

\* what comes back from one HTTP round trip
AppleOutcomes ==
    {[kind |-> "transport"], [kind |-> "unparsable"]} \cup
    {[kind |-> "body", response |-> r] : r \in AppleResponses}

GoogleOutcomes ==
    {[kind |-> "transport"], [kind |-> "utf8"], [kind |-> "unparsable"]} \cup
    {[kind |-> "body", response |-> r] : r \in GoogleResponses}

TokenOutcomes == {[kind |-> "denied"], [kind |-> "token", token |-> "bearer"]}

----------------------------------------------------------------------------
(* One call of UnityPurchaseValidator::validate *)

\* no value is on the wire
NoWire == [stage |-> "none"]

\* validate is called once: there is no other call to switch to
NoSched == [cur |-> 0]

Init ==
    /\ config \in Configs
    /\ receipt \in UnityPurchaseReceipts
    /\ now \in NowValues
    /\ pc = "start"
    /\ prod = TRUE
    /\ requests = <<>>
    /\ answers = <<>>
    /\ tokenCalls = 0
    /\ fetchResult = Pending
    /\ wire = NoWire
    /\ sched = NoSched
    /\ result = Pending
    /\ failure = "none"

\* what is recorded of an answer: its kind and, of a parsed App Store body,
\* its status
AnswerOf(out) ==
    IF out.kind = "body" /\ "status" \in DOMAIN out.response
    THEN [kind |-> "body", status |-> out.response.status]
    ELSE IF out.kind = "body"
    THEN [kind |-> "body", status |-> -1, body |-> out.response]
    ELSE [kind |-> out.kind, status |-> -1]

\* mutant: the retry goes to production again
ApplePost_AlwaysProduction(is_prod, request_body) ==
    [method |-> "POST",
     base   |-> config.apple_urls.production,
     path   |-> "/verifyReceipt",
     body   |-> request_body]

\* the request fetch_apple_response builds for its prod flag
ApplePost(is_prod, request_body) ==
    [method |-> "POST",
     base   |-> IF is_prod THEN config.apple_urls.production ELSE config.apple_urls.sandbox,
     path   |-> "/verifyReceipt",
     body   |-> request_body]

\* mutant: the status of the response is not looked at
ValidateAppleArm_IgnoreStatus(response, transaction_id, now_ms) ==
    IF is_subscription(response, transaction_id)
    THEN validate_apple_subscription(response, transaction_id, now_ms)
    ELSE PurchaseResponse(IsSome(get_product_id(response, transaction_id)),
                          get_product_id(response, transaction_id))

\* validate, AppleAppStore arm, after the fetch returned Ok(response).
\* lib.rs:249 passes only the response to validate_apple_subscription; the
\* function of apple.rs takes the transaction id and the time as well, and
\* validate has the receipt's transaction id and the clock to give.
ValidateAppleArm(response, transaction_id, now_ms) ==
    IF response.status = 0
    THEN IF is_subscription(response, transaction_id)
         THEN validate_apple_subscription(response, transaction_id, now_ms)
         ELSE validate_apple_package(response, transaction_id)
    ELSE PurchaseResponse(FALSE, get_product_id(response, transaction_id))

\* mutant: an absent secret is sent as the empty password
PasswordOf_Default(secret) ==
    IF IsNone(secret) THEN Ok("") ELSE Ok(Unwrap(secret))

\* fetch_apple_receipt_data_with_urls: password.cloned().ok_or_else(..)?
PasswordOf(secret) ==
    IF IsNone(secret) THEN Err("IoError") ELSE Ok(Unwrap(secret))

\* validate on an AppleAppStore receipt up to the first await:
\* fetch_apple_receipt_data_with_urls checks the secret, serializes the
\* request body and fetch_apple_response(prod = true) sends the first POST
ValidateApple ==
    /\ pc = "start"
    /\ receipt.store = "AppleAppStore"
    /\ LET password == PasswordOf(config.secret)
       IN  IF IsErr(password)
           THEN /\ fetchResult' = password
                /\ result' = password
                /\ failure' = "credential"
                /\ pc' = "done"
                /\ UNCHANGED <<requests, prod>>
           ELSE /\ requests' = <<ApplePost(TRUE, AppleRequest(receipt.payload, password.val))>>
                /\ prod' = TRUE
                /\ pc' = "apple_await"
                /\ UNCHANGED <<fetchResult, result, failure>>
    /\ UNCHANGED <<wire, sched>>
    /\ UNCHANGED <<config, receipt, now, answers, tokenCalls>>

\* fetch_apple_response resumed by the answer to its POST, and the rest of
\* validate when the fetch returns
AppleRespondWith(outcomes) ==
    /\ pc = "apple_await"
    /\ \E out \in outcomes :
         /\ answers' = Append(answers, AnswerOf(out))
         /\ IF out.kind = "transport"
            THEN /\ fetchResult' = Err("HyperError")
                 /\ result' = Err("HyperError")
                 /\ failure' = "transport"
                 /\ pc' = "done"
                 /\ UNCHANGED <<requests, prod>>
            ELSE IF out.kind = "unparsable"
            THEN /\ fetchResult' = Err("SerdeError")
                 /\ result' = Err("SerdeError")
                 /\ failure' = "parse"
                 /\ pc' = "done"
                 /\ UNCHANGED <<requests, prod>>
            ELSE IF out.response.status = APPLE_STATUS_CODE_TEST
            THEN /\ Len(requests) < MaxRequests
                 /\ requests' = Append(requests,
                                       ApplePost(FALSE, requests[Len(requests)].body))
                 /\ prod' = FALSE
                 /\ UNCHANGED <<pc, fetchResult, result, failure>>
            ELSE /\ fetchResult' = Ok(out.response)
                 /\ result' = Ok(ValidateAppleArm(out.response, receipt.transaction_id, now))
                 /\ pc' = "done"
                 /\ UNCHANGED <<requests, prod, failure>>
    /\ UNCHANGED <<wire, sched>>
    /\ UNCHANGED <<config, receipt, now, tokenCalls>>

\* the server may answer with anything of AppleOutcomes
AppleRespond == AppleRespondWith(AppleOutcomes)

\* mutant: the GET with a token goes out without the Authorization header
GoogleGet_NoHeader(uri, auth_token) ==
    IF IsSome(auth_token)
    THEN [method |-> "GET", uri |-> uri, authorization |-> None]
    ELSE [method |-> "GET", uri |-> [uri EXCEPT !.suffix = "/test"], authorization |-> None]

\* the GET fetch_google_receipt_data_with_uri builds
GoogleGet(uri, auth_token) ==
    IF IsSome(auth_token)
    THEN [method |-> "GET", uri |-> uri, authorization |-> Some(<<"Bearer", Unwrap(auth_token)>>)]
    ELSE [method |-> "GET", uri |-> [uri EXCEPT !.suffix = "/test"], authorization |-> None]

\* the payload as validate decodes it: GooglePlayData::from, then
\* get_sku_details, then get_uri
DecodeGoogle(payload) ==
    LET data == GooglePlayData_from(payload)
    IN  IF IsErr(data) THEN data
        ELSE LET sku == get_sku_details(data.val)
             IN  IF IsErr(sku) THEN sku
                 ELSE LET uri == get_uri(data.val, sku.val.sku_type)
                      IN  IF IsErr(uri) THEN uri
                          ELSE Ok([data |-> data.val, sku_type |-> sku.val.sku_type,
                                   uri |-> uri.val])

\* validate on a GooglePlay receipt up to the first await: the payload is
\* decoded, and fetch_google_receipt_data_with_uri either asks for a token
\* (a key is set) or sends the GET to uri/test (no key)
ValidateGoogle ==
    /\ pc = "start"
    /\ receipt.store = "GooglePlay"
    /\ LET decoded == DecodeGoogle(receipt.payload)
       IN  IF IsErr(decoded)
           THEN /\ result' = Ok(PurchaseResponse(FALSE, None))
                /\ failure' = "decode"
                /\ pc' = "done"
                /\ UNCHANGED <<requests, tokenCalls>>
           ELSE IF IsSome(config.service_account_key)
           THEN /\ tokenCalls' = tokenCalls + 1
                /\ pc' = "google_token"
                /\ UNCHANGED <<requests, result, failure>>
           ELSE /\ requests' = <<GoogleGet(decoded.val.uri, None)>>
                /\ pc' = "google_await"
                /\ UNCHANGED <<tokenCalls, result, failure>>
    /\ UNCHANGED <<wire, sched>>
    /\ UNCHANGED <<config, receipt, now, prod, answers, fetchResult>>

\* fetch_google_receipt_data_with_uri resumed by the authenticator
GoogleTokenRespond ==
    /\ pc = "google_token"
    /\ \E out \in TokenOutcomes :
         IF out.kind = "denied"
         THEN /\ fetchResult' = Err("YupOauth2Error")
              /\ result' = Ok(PurchaseResponse(FALSE, None))
              /\ failure' = "auth"
              /\ pc' = "done"
              /\ UNCHANGED requests
         ELSE /\ requests' = <<GoogleGet(DecodeGoogle(receipt.payload).val.uri, Some(out.token))>>
              /\ pc' = "google_await"
              /\ UNCHANGED <<fetchResult, result, failure>>
    /\ UNCHANGED <<wire, sched>>
    /\ UNCHANGED <<config, receipt, now, prod, answers, tokenCalls>>

\* mutant: every Play Store response goes to the package evaluator
ValidateGoogleArm_AlwaysPackage(response, sku_type, now_ms) ==
    Ok(validate_google_package(response))

\* validate, GooglePlay arm, after the fetch returned Ok(response).
\* lib.rs:281 passes only the response to validate_google_subscription; the
\* function of google.rs takes the time as well.
ValidateGoogleArm(response, sku_type, now_ms) ==
    IF sku_type = "subs"
    THEN validate_google_subscription(response, now_ms)
    ELSE Ok(validate_google_package(response))

\* fetch_google_receipt_data_with_uri resumed by the answer to its GET, and
\* the rest of validate when the fetch returns
GoogleRespondWith(outcomes) ==
    /\ pc = "google_await"
    /\ LET decoded == DecodeGoogle(receipt.payload).val
       IN  \E out \in outcomes :
             /\ answers' = Append(answers, AnswerOf(out))
             /\ IF out.kind # "body"
                THEN /\ fetchResult' = Err(CASE out.kind = "transport" -> "HyperError"
                                             [] out.kind = "utf8" -> "FromUtf8Error"
                                             [] OTHER -> "SerdeError")
                     /\ result' = Ok(PurchaseResponse(FALSE, None))
                     /\ failure' = IF out.kind = "transport" THEN "transport" ELSE "parse"
                ELSE LET filled == BackfillProductId(out.response, Some(decoded.data))
                     IN  /\ fetchResult' = filled
                         /\ result' = IF IsErr(filled)
                                      THEN Ok(PurchaseResponse(FALSE, None))
                                      ELSE ValidateGoogleArm(filled.val, decoded.sku_type, now)
                         /\ failure' = IF IsErr(filled) THEN "parse" ELSE failure
    /\ pc' = "done"
    /\ UNCHANGED <<wire, sched>>
    /\ UNCHANGED <<config, receipt, now, prod, requests, tokenCalls>>

\* the server may answer with anything of GoogleOutcomes
GoogleRespond == GoogleRespondWith(GoogleOutcomes)

Next ==
    \/ ValidateApple
    \/ AppleRespond
    \/ ValidateGoogle
    \/ GoogleTokenRespond
    \/ GoogleRespond

Spec == Init /\ [][Next]_vars

----------------------------------------------------------------------------
(* The evaluators called on their own, as the library exports them: a     *)
(* caller holds a response it fetched and applies one evaluator to it.    *)

\* UnityPurchaseValidator::default()
ValidatorDefault ==
    [secret |-> None, apple_urls |-> AppleUrlsDefault, service_account_key |-> None]

EvalInit ==
    /\ config = ValidatorDefault
    /\ \/ /\ receipt \in AppleUnityReceipts
          /\ fetchResult \in {Ok(r) : r \in AppleResponses}
       \/ /\ receipt \in {r \in GoogleUnityReceipts : r.payload = Malformed}
          /\ fetchResult \in {Ok(r) : r \in GoogleResponses}
    /\ now \in NowValues
    /\ pc = "eval"
    /\ prod = TRUE
    /\ requests = <<>>
    /\ answers = <<>>
    /\ tokenCalls = 0
    /\ result = Pending
    /\ failure = "none"
    /\ wire = NoWire
    /\ sched = NoSched

EvalAppleSubscription ==
    /\ pc = "eval"
    /\ receipt.store = "AppleAppStore"
    /\ result' = Ok(validate_apple_subscription(fetchResult.val, receipt.transaction_id, now))
    /\ pc' = "eval_apple_subscription"
    /\ UNCHANGED <<wire, sched>>
    /\ UNCHANGED <<config, receipt, now, prod, requests, answers, tokenCalls,
                   fetchResult, failure>>

EvalApplePackage ==
    /\ pc = "eval"
    /\ receipt.store = "AppleAppStore"
    /\ result' = Ok(validate_apple_package(fetchResult.val, receipt.transaction_id))
    /\ pc' = "eval_apple_package"
    /\ UNCHANGED <<wire, sched>>
    /\ UNCHANGED <<config, receipt, now, prod, requests, answers, tokenCalls,
                   fetchResult, failure>>

EvalGoogleSubscription ==
    /\ pc = "eval"
    /\ receipt.store = "GooglePlay"
    /\ result' = validate_google_subscription(fetchResult.val, now)
    /\ pc' = "eval_google_subscription"
    /\ UNCHANGED <<wire, sched>>
    /\ UNCHANGED <<config, receipt, now, prod, requests, answers, tokenCalls,
                   fetchResult, failure>>

EvalGooglePackage ==
    /\ pc = "eval"
    /\ receipt.store = "GooglePlay"
    /\ result' = Ok(validate_google_package(fetchResult.val))
    /\ pc' = "eval_google_package"
    /\ UNCHANGED <<wire, sched>>
    /\ UNCHANGED <<config, receipt, now, prod, requests, answers, tokenCalls,
                   fetchResult, failure>>

\* AppleResponse::get_latest_receipt called on the response in hand: what
\* it returns is an Option, the record selected or None
EvalLatestReceipt ==
    /\ pc = "eval"
    /\ receipt.store = "AppleAppStore"
    /\ result' = get_latest_receipt(fetchResult.val)
    /\ pc' = "eval_latest_receipt"
    /\ UNCHANGED <<wire, sched>>
    /\ UNCHANGED <<config, receipt, now, prod, requests, answers, tokenCalls,
                   fetchResult, failure>>

EvalNext ==
    \/ EvalAppleSubscription
    \/ EvalApplePackage
    \/ EvalGoogleSubscription
    \/ EvalGooglePackage
    \/ EvalLatestReceipt

EvalSpec == EvalInit /\ [][EvalNext]_vars

----------------------------------------------------------------------------
(* Vocabulary of the properties *)

IsApple == receipt.store = "AppleAppStore"

IsGoogle == receipt.store = "GooglePlay"

\* validate has returned
Done == pc = "done"

ProdPost(r) ==
    r.method = "POST" /\ r.base = config.apple_urls.production /\ r.path = "/verifyReceipt"

SandboxPost(r) ==
    r.method = "POST" /\ r.base = config.apple_urls.sandbox /\ r.path = "/verifyReceipt"

\* the answer to request i is a parsed body with status st
AnsweredStatus(i, st) ==
    i \in 1..Len(answers) /\ answers[i].kind = "body" /\ answers[i].status = st

\* the in-app records of a response, << >> when receipt or in_app is absent
RecordsOf(response) ==
    IF IsNone(response.receipt) THEN <<>>
    ELSE IF IsNone(Unwrap(response.receipt).in_app) THEN <<>>
    ELSE Unwrap(Unwrap(response.receipt).in_app)

\* the record has an expiry that is a number
HasExpiry(r) == IsSome(r.expires_date_ms) /\ IsOk(ParseI64(Unwrap(r.expires_date_ms)))

ExpiryOf(r) == ParseI64(Unwrap(r.expires_date_ms)).val

----------------------------------------------------------------------------
(* C1 *)

\* C1: in a Store A fetch the first request is a POST to
\* {production}/verifyReceipt; every later request is a POST to
\* {sandbox}/verifyReceipt with the body of the first request, and it is sent
\* only after the request before it was answered with status 21007; a
\* production answer with status 21007 is always followed by a sandbox request.
C1_SandboxOnlyAfter21007 ==
    IsApple =>
        /\ Len(requests) > 0 => ProdPost(requests[1])
        /\ \A i \in 2..Len(requests) :
             /\ SandboxPost(requests[i])
             /\ ~ProdPost(requests[i])
             /\ requests[i].body = requests[1].body
             /\ AnsweredStatus(i - 1, APPLE_STATUS_CODE_TEST)
        /\ Len(answers) <= Len(requests)
        /\ AnsweredStatus(1, APPLE_STATUS_CODE_TEST) => Len(requests) >= 2
        /\ (Len(requests) >= 2) => AnsweredStatus(1, APPLE_STATUS_CODE_TEST)

\* a fetch that went to the sandbox after a 21007 from production and returned
C1_Witness ==
    /\ IsApple /\ Done
    /\ Len(requests) = 2
    /\ AnsweredStatus(1, APPLE_STATUS_CODE_TEST)
    /\ SandboxPost(requests[2])
    /\ IsOk(fetchResult)

----------------------------------------------------------------------------
(* C2 *)

\* C2: a Store A fetch sends at most two requests, one to production and at
\* most one to the sandbox, and what the sandbox answers is returned whatever
\* its status.
C2_AtMostTwoRequests ==
    IsApple =>
        /\ Len(requests) <= 2
        /\ (Len(answers) = 2 /\ answers[2].kind = "body") =>
               (Done /\ IsOk(fetchResult) /\ fetchResult.val.status = answers[2].status)

----------------------------------------------------------------------------
(* C3 *)

\* C3: when production answers a Store A receipt with a status other than 0
\* and 21007, validate returns Ok with valid = false and exactly one request
\* was sent.
C3_OtherStatusInvalidOneRequest ==
    (IsApple /\ Len(answers) >= 1 /\ answers[1].kind = "body"
        /\ answers[1].status \notin {APPLE_STATUS_VALID, APPLE_STATUS_CODE_TEST}) =>
        /\ Done
        /\ IsOk(result)
        /\ result.val.valid = FALSE
        /\ Len(requests) = 1
        /\ ProdPost(requests[1])

\* production answered 333 for a receipt whose matching record is a live
\* subscription
C3_Witness ==
    /\ IsApple /\ Done
    /\ AnsweredStatus(1, 333)
    /\ IsOk(result) /\ ~result.val.valid
    /\ receipt.transaction_id = "t1"
    /\ IsOk(fetchResult)
    /\ \E i \in 1..Len(RecordsOf(fetchResult.val)) :
         LET r == RecordsOf(fetchResult.val)[i]
         IN  r.transaction_id = Some("t1") /\ HasExpiry(r) /\ ExpiryOf(r) > now

----------------------------------------------------------------------------
(* C4 *)

\* C4: with no Apple shared secret configured, a Store A fetch, and validate
\* with it, returns an error, and no request is ever sent to either endpoint.
C4_NoSecretNoRequest ==
    (IsApple /\ IsNone(config.secret)) =>
        /\ requests = <<>>
        /\ answers = <<>>
        /\ pc \in {"start", "done"}
        /\ Done => (IsErr(fetchResult) /\ IsErr(result))

C4_Witness ==
    /\ IsApple /\ IsNone(config.secret) /\ Done
    /\ IsErr(result) /\ result.err = "IoError"
    /\ requests = <<>>

----------------------------------------------------------------------------
(* C5 *)

\* C5: for both stores, when decoding the payload, the network call, the
\* credential exchange or parsing the response fails during validate,
\* validate returns an error and not Ok(valid = false).
C5_FailuresAreErrors ==
    (Done /\ failure \in {"decode", "transport", "auth", "parse"}) => IsErr(result)

----------------------------------------------------------------------------
(* Vocabulary of the Store A verdicts *)

\* validate returned after a Store A fetch that ended with a status 0 response
AppleFetchedValid ==
    IsApple /\ Done /\ IsOk(fetchResult) /\ fetchResult.val.status = 0

\* the in-app records of the response in hand
Records == RecordsOf(fetchResult.val)

\* record i has an expiry after the clock
Live(i) == HasExpiry(Records[i]) /\ ExpiryOf(Records[i]) > now

\* record i has an expiry that is not after the clock
Expired(i) == HasExpiry(Records[i]) /\ ExpiryOf(Records[i]) <= now

\* record i is the first one that carries the transaction id of the receipt
FirstMatch(i) ==
    /\ Records[i].transaction_id = Some(receipt.transaction_id)
    /\ \A j \in 1..(i - 1) : Records[j].transaction_id # Some(receipt.transaction_id)

\* the verdict of record i on its own
VerdictOf(i) ==
    IF HasExpiry(Records[i])
    THEN PurchaseResponse(ExpiryOf(Records[i]) > now, Records[i].product_id)
    ELSE PurchaseResponseDefault

\* record i has an expiry and no record has a later one
MaxExpiry(i) ==
    /\ HasExpiry(Records[i])
    /\ \A j \in 1..Len(Records) :
         HasExpiry(Records[j]) => ExpiryOf(Records[j]) <= ExpiryOf(Records[i])

----------------------------------------------------------------------------
(* C6 *)

\* C6: for a Store A response with status 0 in which every record has an
\* expiry at or before now, an expiry equal to now included, validate returns
\* valid = false.
C6_ExpiredIsInvalid ==
    (AppleFetchedValid /\ \A i \in 1..Len(Records) : Expired(i)) =>
        (IsOk(result) /\ result.val.valid = FALSE)

\* the record of the receipt's transaction expires exactly now
C6_Witness ==
    /\ AppleFetchedValid
    /\ receipt.transaction_id = "t1"
    /\ Len(Records) >= 1
    /\ \A i \in 1..Len(Records) : Expired(i)
    /\ \E i \in 1..Len(Records) :
         FirstMatch(i) /\ ExpiryOf(Records[i]) = now /\ IsSome(Records[i].product_id)
    /\ IsOk(result) /\ ~result.val.valid

----------------------------------------------------------------------------
(* C7 *)

\* C7 as claimed: for a Store A response with status 0 that holds a record
\* whose expiry exceeds now, validate returns valid = true with the product
\* id of such a record, whatever the transaction id of the receipt.
C7_LiveRecordIsValid ==
    (AppleFetchedValid /\ \E i \in 1..Len(Records) : Live(i)) =>
        /\ IsOk(result)
        /\ result.val.valid
        /\ \E i \in 1..Len(Records) :
             Live(i) /\ Records[i].product_id = result.val.product_id

\* the transaction id is empty, or the first record that carries it has an
\* expiry field: validate takes the subscription evaluator
SubscriptionReceipt ==
    \/ receipt.transaction_id = ""
    \/ \E i \in 1..Len(Records) : FirstMatch(i) /\ IsSome(Records[i].expires_date_ms)

\* C7 amended: for a Store A response with status 0 that holds a record
\* whose expiry exceeds now, validate returns valid = true with the product
\* id of such a record when the transaction id of the receipt is empty or the
\* first record that carries it has an expiry field.
C7_LiveRecordIsValidForSubscriptions ==
    (AppleFetchedValid /\ SubscriptionReceipt /\ \E i \in 1..Len(Records) : Live(i)) =>
        /\ IsOk(result)
        /\ result.val.valid
        /\ \E i \in 1..Len(Records) :
             Live(i) /\ Records[i].product_id = result.val.product_id

\* the record of the receipt's transaction has expired and another record,
\* of another product, is live
C7_Witness ==
    /\ AppleFetchedValid
    /\ receipt.transaction_id = "t1"
    /\ Len(Records) = 2
    /\ \E i, j \in 1..Len(Records) :
         /\ FirstMatch(i) /\ Expired(i)
         /\ Live(j) /\ Records[j].product_id # Records[i].product_id
         /\ IsSome(Records[j].product_id)
         /\ result.val = PurchaseResponse(TRUE, Records[j].product_id)

----------------------------------------------------------------------------
(* C8 *)

\* validate_apple_subscription was applied to the response in hand
AppleSubscriptionEvaluated == pc = "eval_apple_subscription"

\* C8: validate_apple_subscription with a non-empty transaction id returns
\* the verdict of the first record carrying that id when this record is
\* valid now; otherwise, and with an empty transaction id, it returns the
\* verdict of a record with the maximum expiry.  The product id returned is
\* the product id of the record that decided.
C8_SelectionRule ==
    AppleSubscriptionEvaluated =>
        /\ IsOk(result)
        /\ IF /\ receipt.transaction_id # ""
              /\ \E i \in 1..Len(Records) : FirstMatch(i) /\ Live(i)
           THEN \E i \in 1..Len(Records) :
                  FirstMatch(i) /\ result.val = PurchaseResponse(TRUE, Records[i].product_id)
           ELSE IF \E i \in 1..Len(Records) : HasExpiry(Records[i])
           THEN \E i \in 1..Len(Records) : MaxExpiry(i) /\ result.val = VerdictOf(i)
           ELSE result.val = PurchaseResponseDefault

----------------------------------------------------------------------------
(* C9 *)

----------------------------------------------------------------------------
(* C10 *)

----------------------------------------------------------------------------
(* C11 *)

\* validate_apple_package was applied to the response in hand
ApplePackageEvaluated == pc = "eval_apple_package"

\* C11: validate_apple_package returns valid = true if and only if the
\* status of the response is 0 and some record of receipt.in_app carries the
\* given transaction id.
C11_PackageValidIffMatch ==
    ApplePackageEvaluated =>
        /\ IsOk(result)
        /\ result.val.valid <=>
             /\ fetchResult.val.status = 0
             /\ \E i \in 1..Len(Records) :
                  Records[i].transaction_id = Some(receipt.transaction_id)

----------------------------------------------------------------------------
(* C12 *)

\* validate_google_package was applied to the response in hand
GooglePackageEvaluated == pc = "eval_google_package"

\* C12: validate_google_package returns valid = true if and only if
\* purchase_state is present and 0, and the product id of the verdict is the
\* product id of the response.
C12_PurchasedIffStateZero ==
    GooglePackageEvaluated =>
        /\ IsOk(result)
        /\ result.val.valid <=> fetchResult.val.purchase_state = Some(0)
        /\ result.val.product_id = fetchResult.val.product_id

\* a purchased product with a product id, and no expiry
C12_Witness ==
    /\ GooglePackageEvaluated
    /\ fetchResult.val.purchase_state = Some(0)
    /\ fetchResult.val.product_id = Some("p1")
    /\ fetchResult.val.expiry_time = None
    /\ result = Ok(PurchaseResponse(TRUE, Some("p1")))

----------------------------------------------------------------------------
(* C14 *)

\* validate_google_subscription was applied to the response in hand
GoogleSubscriptionEvaluated == pc = "eval_google_subscription"

\* the expiry of a Store B response is present and a number
GoogleHasExpiry(response) ==
    IsSome(response.expiry_time) /\ IsOk(ParseI64(Unwrap(response.expiry_time)))

GoogleExpiryOf(response) == ParseI64(Unwrap(response.expiry_time)).val

\* C14: for a Store B subscription response whose expiry parses,
\* validate_google_subscription returns valid = true if and only if the
\* expiry is strictly after now, whatever purchase_state is, and the product
\* id of the verdict is the product id of the response.
C14_GoogleSubscriptionStrict ==
    (GoogleSubscriptionEvaluated /\ GoogleHasExpiry(fetchResult.val)) =>
        /\ IsOk(result)
        /\ result.val.valid <=> GoogleExpiryOf(fetchResult.val) > now
        /\ result.val.product_id = fetchResult.val.product_id

\* a canceled purchase whose expiry is still ahead
C14_Witness ==
    /\ GoogleSubscriptionEvaluated
    /\ GoogleHasExpiry(fetchResult.val)
    /\ GoogleExpiryOf(fetchResult.val) > now
    /\ fetchResult.val.purchase_state = Some(1)
    /\ fetchResult.val.product_id = Some("p1")
    /\ result = Ok(PurchaseResponse(TRUE, Some("p1")))

----------------------------------------------------------------------------
(* C13 *)

\* the payload of the receipt decodes, and names this SKU type
GoogleSkuIs(sku_type) ==
    /\ IsGoogle
    /\ IsOk(DecodeGoogle(receipt.payload))
    /\ DecodeGoogle(receipt.payload).val.sku_type = sku_type

\* validate fetched a Store B subscription whose expiry is absent or is not
\* a number
GoogleSubscriptionWithoutExpiry ==
    /\ Done
    /\ GoogleSkuIs("subs")
    /\ IsOk(fetchResult)
    /\ ~GoogleHasExpiry(fetchResult.val)

\* C13 as stated: a Store B subscription response whose expiry is missing or
\* unparsable makes validate return Ok with valid = false, not an error.
C13_MissingExpiryIsInvalid ==
    GoogleSubscriptionWithoutExpiry =>
        IsOk(result) /\ ~result.val.valid

\* C13 as amended: a Store B subscription response whose expiry is missing
\* or unparsable makes validate_google_subscription, and validate with it,
\* return the integer parse error; no verdict is returned.
C13_MissingExpiryIsParseError ==
    GoogleSubscriptionWithoutExpiry => result = Err("ParseIntError")

\* the store answered a subscription without expiryTimeMillis
C13_Witness ==
    /\ GoogleSubscriptionWithoutExpiry
    /\ fetchResult.val.expiry_time = None
    /\ fetchResult.val.purchase_state = Some(0)
    /\ result = Err("ParseIntError")

----------------------------------------------------------------------------
(* C15 *)

\* the payload of a GooglePlay receipt has an envelope that is not JSON, a
\* skuDetails text that is not JSON, or a SKU type that is neither "subs"
\* nor "inapp"
BadGooglePayload ==
    /\ IsGoogle
    /\ \/ ~receipt.payload.ok
       \/ ~receipt.payload.sku_details.ok
       \/ receipt.payload.sku_details.type \notin {"subs", "inapp"}

\* the path segment that belongs to a SKU type
SegmentOf(sku_type) ==
    CASE sku_type = "subs" -> "subscriptions"
      [] sku_type = "inapp" -> "products"

\* C15: decoding a Store B payload fails with an error when the envelope or
\* the nested skuDetails text does not parse or the SKU type is neither
\* "subs" nor "inapp"; such a payload causes no token exchange and no
\* request, and every request that is sent goes to the path segment of the
\* type the payload names (no type is defaulted).
C15_BadPayloadNoRequest ==
    /\ BadGooglePayload =>
         /\ IsErr(DecodeGoogle(receipt.payload))
         /\ requests = <<>>
         /\ tokenCalls = 0
         /\ fetchResult = Pending
         /\ pc \in {"start", "done"}
         /\ Done => failure = "decode"
    /\ (IsGoogle /\ (requests # <<>> \/ tokenCalls > 0)) =>
         /\ receipt.payload.sku_details.type \in {"subs", "inapp"}
         /\ \A i \in 1..Len(requests) :
              requests[i].uri.segment = SegmentOf(receipt.payload.sku_details.type)

\* validate returned on a payload whose SKU type is "rental"
C15_Witness ==
    /\ Done
    /\ BadGooglePayload
    /\ receipt.payload.ok
    /\ receipt.payload.sku_details.ok
    /\ receipt.payload.sku_details.type = "rental"
    /\ receipt.payload.json.ok
    /\ failure = "decode"
    /\ requests = <<>>

----------------------------------------------------------------------------
(* C16 *)

KeyConfigured == IsSome(config.service_account_key)

\* the URI that the payload of the receipt derives
DerivedUri ==
    [package_name |-> receipt.payload.json.package_name,
     segment      |-> SegmentOf(receipt.payload.sku_details.type),
     product_id   |-> receipt.payload.json.product_id,
     token        |-> receipt.payload.json.token,
     suffix       |-> ""]

\* C16: in a Store B fetch a token exchange happens exactly when a service
\* account key is configured, and it is over before the single GET, which
\* goes to the derived URI with an Authorization: Bearer header; without a
\* key there is exactly one GET, to the derived URI followed by /test,
\* without that header and without a token exchange; a failed token
\* exchange gives an error and no GET.
C16_TokenThenSingleGet ==
    IsGoogle =>
        /\ Len(requests) <= 1
        /\ tokenCalls <= 1
        /\ tokenCalls = 1 <=> (KeyConfigured /\ pc \in {"google_token", "google_await", "done"}
                                 /\ failure # "decode")
        /\ pc = "google_token" => requests = <<>>
        /\ (pc \in {"google_await", "done"} /\ failure \notin {"decode", "auth"}) =>
              /\ Len(requests) = 1
              /\ requests[1].method = "GET"
              /\ IF KeyConfigured
                 THEN /\ requests[1].uri = DerivedUri
                      /\ requests[1].authorization = Some(<<"Bearer", "bearer">>)
                 ELSE /\ requests[1].uri = [DerivedUri EXCEPT !.suffix = "/test"]
                      /\ requests[1].authorization = None
        /\ failure = "auth" =>
              /\ IsErr(fetchResult)
              /\ requests = <<>>
              /\ answers = <<>>

\* with a key: one token exchange, then one GET with the header
C16_Witness ==
    /\ IsGoogle
    /\ Done
    /\ KeyConfigured
    /\ tokenCalls = 1
    /\ Len(requests) = 1
    /\ requests[1].authorization = Some(<<"Bearer", "bearer">>)
    /\ requests[1].uri.suffix = ""
    /\ IsOk(fetchResult)

----------------------------------------------------------------------------
(* C17 *)

\* the body the store sent in answer to the GET
GoogleSent == answers[Len(answers)].body

\* the product id in the json text of the payload
PayloadProductId == receipt.payload.json.product_id

\* C17: after a successful Store B fetch made with the decoded payload the
\* response that is returned has a product id: the product id of the payload
\* when the response of the store had none, and the one the store sent, with
\* the response unchanged, when it had one.
C17_ProductIdBackfilled ==
    (IsGoogle /\ IsOk(fetchResult)) =>
        /\ IsSome(fetchResult.val.product_id)
        /\ IsNone(GoogleSent.product_id) =>
             fetchResult.val = [GoogleSent EXCEPT !.product_id = Some(PayloadProductId)]
        /\ IsSome(GoogleSent.product_id) => fetchResult.val = GoogleSent

\* the store sent no product id and the payload's one was filled in
C17_Witness ==
    /\ IsGoogle
    /\ IsOk(fetchResult)
    /\ IsNone(GoogleSent.product_id)
    /\ fetchResult.val.product_id = Some("sku1")
    /\ IsOk(result)
    /\ result.val.product_id = Some("sku1")

----------------------------------------------------------------------------
(* C20 *)

\* validate returned after a Store A fetch that ended with a response
AppleFetched == IsApple /\ Done /\ IsOk(fetchResult)

\* what the subscription evaluator gives for the response in hand
SubscriptionVerdict ==
    validate_apple_subscription(fetchResult.val, receipt.transaction_id, now)

\* what the package evaluator gives for the response in hand
PackageVerdict == validate_apple_package(fetchResult.val, receipt.transaction_id)

\* C20: for a Store A response with status 0 validate returns the verdict of
\* the subscription evaluator exactly when the transaction id is empty or
\* the record that matches it has an expiry field, and the verdict of the
\* package evaluator otherwise; for any other status no evaluator decides:
\* the result is valid = false with the product id of the record that
\* matches the transaction id, None when there is none.
C20_DispatchByStatusAndRecord ==
    AppleFetched =>
        /\ IsOk(result)
        /\ (fetchResult.val.status = 0 /\ SubscriptionReceipt) =>
              result.val = SubscriptionVerdict
        /\ (fetchResult.val.status = 0 /\ ~SubscriptionReceipt) =>
              result.val = PackageVerdict
        /\ fetchResult.val.status # 0 =>
              /\ ~result.val.valid
              /\ \/ \E i \in 1..Len(Records) :
                       FirstMatch(i) /\ result.val.product_id = Records[i].product_id
                 \/ /\ \A i \in 1..Len(Records) : ~FirstMatch(i)
                    /\ result.val.product_id = None

\* the matching record has an expiry that has passed: the subscription
\* evaluator decided, where the package evaluator would have said valid
C20_Witness ==
    /\ AppleFetched
    /\ fetchResult.val.status = 0
    /\ receipt.transaction_id = "t1"
    /\ SubscriptionReceipt
    /\ SubscriptionVerdict # PackageVerdict
    /\ PackageVerdict.valid
    /\ result = Ok(PurchaseResponse(FALSE, None))

----------------------------------------------------------------------------
(* src/lib.rs: PurchaseResponse and UnityPurchaseReceipt through JSON.     *)
(* A string is a sequence of characters; a JSON object is the sequence of  *)
(* its members in the order they are written, and a JSON string carries    *)
(* the characters that stand between its quotes, escapes included.         *)

\* longest payload, transaction id and product id put on the wire
WireMaxLen == 2

\* a letter, the quote and the backslash: the last two must be escaped
WireAlphabet == {"a", "\"", "\\"}

WireStrings == UNION {[1..n -> WireAlphabet] : n \in 0..WireMaxLen}

JNull == [t |-> "null"]

JBool(b) == [t |-> "bool", b |-> b]

JString(raw) == [t |-> "string", raw |-> raw]

\* serde_json writing a str: a quote and a backslash get a backslash in front
RECURSIVE JsonEscape(_)
JsonEscape(str) ==
    IF Len(str) = 0 THEN <<>>
    ELSE (IF Head(str) \in {"\"", "\\"} THEN <<"\\", Head(str)>> ELSE <<Head(str)>>)
         \o JsonEscape(Tail(str))

\* serde_json reading a string: a backslash announces the character after
\* it; a bare quote, or a backslash with nothing after it, is an error
RECURSIVE JsonUnescape(_)
JsonUnescape(raw) ==
    IF Len(raw) = 0 THEN Ok(<<>>)
    ELSE IF Head(raw) = "\""  THEN Err("SerdeError")
    ELSE IF Head(raw) = "\\"
    THEN IF Len(raw) < 2 \/ raw[2] \notin {"\"", "\\"} THEN Err("SerdeError")
         ELSE LET rest == JsonUnescape(Tail(Tail(raw)))
              IN  IF IsErr(rest) THEN rest ELSE Ok(<<raw[2]>> \o rest.val)
    ELSE LET rest == JsonUnescape(Tail(raw))
         IN  IF IsErr(rest) THEN rest ELSE Ok(<<Head(raw)>> \o rest.val)

\* the members of an object that carry a key
Members(obj, key) == SelectSeq(obj, LAMBDA member : member.key = key)

\* derive(Deserialize) reading a bool field: missing, doubled or not a bool
\* is an error
ReadBool(obj, key) ==
    LET ms == Members(obj, key)
    IN  IF Len(ms) # 1 \/ ms[1].value.t # "bool" THEN Err("SerdeError")
        ELSE Ok(ms[1].value.b)

\* derive(Deserialize) reading a String field
ReadString(obj, key) ==
    LET ms == Members(obj, key)
    IN  IF Len(ms) # 1 \/ ms[1].value.t # "string" THEN Err("SerdeError")
        ELSE JsonUnescape(ms[1].value.raw)

\* derive(Deserialize) reading an Option<String> field: a missing member
\* and null are None
ReadOptionString(obj, key) ==
    LET ms == Members(obj, key)
    IN  IF Len(ms) = 0 THEN Ok(None)
        ELSE IF Len(ms) > 1 THEN Err("SerdeError")
        ELSE IF ms[1].value = JNull THEN Ok(None)
        ELSE IF ms[1].value.t # "string" THEN Err("SerdeError")
        ELSE LET str == JsonUnescape(ms[1].value.raw)
             IN  IF IsErr(str) THEN str ELSE Ok(Some(str.val))

\* enum Platform: the variants, written as their names
PlatformNames == {"AppleAppStore", "GooglePlay"}

\* impl Default for Platform
PlatformDefault == "AppleAppStore"

\* derive(Serialize) for Platform: a unit variant is the string of its name
serialize_Platform(platform) == JString(<<platform>>)

\* derive(Deserialize) for Platform
deserialize_Platform(obj, key) ==
    LET ms == Members(obj, key)
    IN  IF Len(ms) # 1 \/ ms[1].value.t # "string" THEN Err("SerdeError")
        ELSE IF Len(ms[1].value.raw) = 1 /\ ms[1].value.raw[1] \in PlatformNames
        THEN Ok(ms[1].value.raw[1])
        ELSE Err("SerdeError")

\* derive(Serialize) for PurchaseResponse
serialize_PurchaseResponse(response) ==
    << [key |-> "valid", value |-> JBool(response.valid)],
       [key |-> "product_id",
        value |-> IF IsNone(response.product_id) THEN JNull
                  ELSE JString(JsonEscape(Unwrap(response.product_id)))] >>

\* derive(Deserialize) for PurchaseResponse
deserialize_PurchaseResponse(obj) ==
    LET valid == ReadBool(obj, "valid")
        product_id == ReadOptionString(obj, "product_id")
    IN  IF IsErr(valid) THEN valid
        ELSE IF IsErr(product_id) THEN product_id
        ELSE Ok(PurchaseResponse(valid.val, product_id.val))

\* mutant: the fields are written under their Rust names
serialize_UnityPurchaseReceipt_NoRename(unity_receipt) ==
    << [key |-> "store", value |-> serialize_Platform(unity_receipt.store)],
       [key |-> "payload", value |-> JString(JsonEscape(unity_receipt.payload))],
       [key |-> "transaction_id", value |-> JString(JsonEscape(unity_receipt.transaction_id))] >>

\* derive(Serialize) for UnityPurchaseReceipt, with its three renames
serialize_UnityPurchaseReceipt(unity_receipt) ==
    << [key |-> "Store", value |-> serialize_Platform(unity_receipt.store)],
       [key |-> "Payload", value |-> JString(JsonEscape(unity_receipt.payload))],
       [key |-> "TransactionID", value |-> JString(JsonEscape(unity_receipt.transaction_id))] >>

\* derive(Deserialize) for UnityPurchaseReceipt (UnityPurchaseReceipt::from)
deserialize_UnityPurchaseReceipt(obj) ==
    LET store == deserialize_Platform(obj, "Store")
        payload == ReadString(obj, "Payload")
        transaction_id == ReadString(obj, "TransactionID")
    IN  IF IsErr(store) THEN store
        ELSE IF IsErr(payload) THEN payload
        ELSE IF IsErr(transaction_id) THEN transaction_id
        ELSE Ok([store |-> store.val, payload |-> payload.val,
                 transaction_id |-> transaction_id.val])

\* UnityPurchaseReceipt::default()
UnityPurchaseReceiptDefault ==
    [store |-> PlatformDefault, payload |-> <<>>, transaction_id |-> <<>>]

\* the values put on the wire: populated ones and the defaults
WireValues ==
    {[type |-> "PurchaseResponse", value |-> PurchaseResponse(v, p)] :
        v \in BOOLEAN, p \in {None} \cup {Some(str) : str \in WireStrings}}
    \cup
    {[type |-> "UnityPurchaseReceipt",
      value |-> [store |-> st, payload |-> pl, transaction_id |-> tid]] :
        st \in PlatformNames, pl \in WireStrings, tid \in WireStrings}

WireInit ==
    /\ wire \in {[stage |-> "value", type |-> w.type, value |-> w.value] : w \in WireValues}
    /\ config = ValidatorDefault
    /\ receipt = [store |-> "AppleAppStore", payload |-> AppleBlob, transaction_id |-> ""]
    /\ now = 0
    /\ pc = "wire"
    /\ prod = TRUE
    /\ requests = <<>>
    /\ answers = <<>>
    /\ tokenCalls = 0
    /\ fetchResult = Pending
    /\ result = Pending
    /\ failure = "none"
    /\ sched = NoSched

\* serde_json::to_string
Serialize ==
    /\ wire.stage = "value"
    /\ wire' = [stage |-> "text", type |-> wire.type, value |-> wire.value,
                text |-> IF wire.type = "PurchaseResponse"
                         THEN serialize_PurchaseResponse(wire.value)
                         ELSE serialize_UnityPurchaseReceipt(wire.value)]
    /\ UNCHANGED <<config, receipt, now, pc, prod, requests, answers, tokenCalls,
                   fetchResult, result, failure, sched>>

\* serde_json::from_str
Deserialize ==
    /\ wire.stage = "text"
    /\ wire' = [stage |-> "back", type |-> wire.type, value |-> wire.value,
                text |-> wire.text,
                back |-> IF wire.type = "PurchaseResponse"
                         THEN deserialize_PurchaseResponse(wire.text)
                         ELSE deserialize_UnityPurchaseReceipt(wire.text)]
    /\ UNCHANGED <<config, receipt, now, pc, prod, requests, answers, tokenCalls,
                   fetchResult, result, failure, sched>>

WireNext ==
    \/ Serialize
    \/ Deserialize

WireSpec == WireInit /\ [][WireNext]_vars

----------------------------------------------------------------------------
(* C18 *)

\* C18: serializing a PurchaseResponse or a UnityPurchaseReceipt to JSON and
\* deserializing the text gives a value equal to the original field by
\* field, for populated values and for the defaults (product_id None).
C18_RoundTrip ==
    wire.stage = "back" => wire.back = Ok(wire.value)

\* PurchaseResponse::default() went through the wire: product_id was
\* written as null and read back as None
C18_Witness ==
    /\ wire.stage = "back"
    /\ wire.type = "PurchaseResponse"
    /\ wire.value = PurchaseResponseDefault
    /\ wire.text[2] = [key |-> "product_id", value |-> JNull]
    /\ wire.back = Ok(PurchaseResponseDefault)

----------------------------------------------------------------------------
(* Several validate calls on one validator.  validate takes &self: the    *)
(* calls share the validator and nothing else, each call owns its receipt, *)
(* its clock reading, its HTTP client and its locals.  A call runs from    *)
(* one await to the next; the executor may then resume any other call.     *)
(* The variables of one call above are those of the call that runs; the    *)
(* calls that wait are kept in sched.slots.                                *)

\* calls made on the validator
NumCalls == 2

CallIds == 1..NumCalls

\* what a call holds across an await
Snapshot ==
    [receipt |-> receipt, now |-> now, pc |-> pc, prod |-> prod,
     requests |-> requests, answers |-> answers, tokenCalls |-> tokenCalls,
     fetchResult |-> fetchResult, result |-> result, failure |-> failure]

\* the slot of the call that runs
Running == [pc |-> "running"]

\* a call that has not started
StartOf(unity_receipt, now_ms) ==
    [receipt |-> unity_receipt, now |-> now_ms, pc |-> "start", prod |-> TRUE,
     requests |-> <<>>, answers |-> <<>>, tokenCalls |-> 0,
     fetchResult |-> Pending, result |-> Pending, failure |-> "none"]

\* the receipts handed to the calls: an App Store receipt with and without a
\* transaction id, and a Play Store subscription
ConcReceipts ==
    {[store |-> "AppleAppStore", payload |-> AppleBlob, transaction_id |-> ""],
     [store |-> "AppleAppStore", payload |-> AppleBlob, transaction_id |-> "t1"],
     [store |-> "GooglePlay", transaction_id |-> "t1",
      payload |-> [ok |-> TRUE,
                   json |-> [ok |-> TRUE, package_name |-> "com.app",
                             product_id |-> "sku1", token |-> "tok"],
                   sku_details |-> [ok |-> TRUE, type |-> "subs"]]]}

\* what the App Store answers to the calls: no answer, the sandbox status,
\* and status 0 with the record of "t1", a product or a live subscription
ConcAppleOutcomes ==
    {[kind |-> "transport"],
     [kind |-> "body", response |-> [status |-> APPLE_STATUS_CODE_TEST, receipt |-> None]],
     [kind |-> "body",
      response |-> [status |-> APPLE_STATUS_VALID,
                    receipt |-> Some([in_app |-> Some(<<[product_id |-> Some("p1"),
                                                         expires_date_ms |-> None,
                                                         transaction_id |-> Some("t1")]>>)])]],
     [kind |-> "body",
      response |-> [status |-> APPLE_STATUS_VALID,
                    receipt |-> Some([in_app |-> Some(<<[product_id |-> Some("p2"),
                                                         expires_date_ms |-> Some(<<"2">>),
                                                         transaction_id |-> Some("t1")]>>)])]]}

\* what the Play Store answers to the calls
ConcGoogleOutcomes ==
    {[kind |-> "transport"],
     [kind |-> "body",
      response |-> [expiry_time |-> Some(<<"2">>), product_id |-> None,
                    purchase_state |-> Some(0)]],
     [kind |-> "body",
      response |-> [expiry_time |-> None, product_id |-> Some("p1"),
                    purchase_state |-> Some(0)]]}

ConcInit ==
    /\ config \in Configs
    /\ \E given \in [CallIds -> ConcReceipts] :
         /\ sched = [cur |-> 1, validator |-> config, given |-> given,
                     slots |-> [i \in CallIds |->
                                  IF i = 1 THEN Running ELSE StartOf(given[i], 1)]]
         /\ receipt = given[1]
    /\ now = 1
    /\ pc = "start"
    /\ prod = TRUE
    /\ requests = <<>>
    /\ answers = <<>>
    /\ tokenCalls = 0
    /\ fetchResult = Pending
    /\ result = Pending
    /\ failure = "none"
    /\ wire = NoWire

\* mutant: the receipt is kept in one place for all the calls
Switch_SharedReceipt(j) ==
    /\ sched # NoSched
    /\ j # sched.cur
    /\ LET slot == sched.slots[j]
       IN  /\ receipt' = receipt
           /\ now' = slot.now
           /\ pc' = slot.pc
           /\ prod' = slot.prod
           /\ requests' = slot.requests
           /\ answers' = slot.answers
           /\ tokenCalls' = slot.tokenCalls
           /\ fetchResult' = slot.fetchResult
           /\ result' = slot.result
           /\ failure' = slot.failure
    /\ sched' = [sched EXCEPT !.cur = j,
                              !.slots = [@ EXCEPT ![sched.cur] = Snapshot, ![j] = Running]]
    /\ UNCHANGED <<config, wire>>

\* the executor leaves the call that runs at its await (or before its start,
\* or after its return) and resumes call j
Switch(j) ==
    /\ sched # NoSched
    /\ j # sched.cur
    /\ LET slot == sched.slots[j]
       IN  /\ receipt' = slot.receipt
           /\ now' = slot.now
           /\ pc' = slot.pc
           /\ prod' = slot.prod
           /\ requests' = slot.requests
           /\ answers' = slot.answers
           /\ tokenCalls' = slot.tokenCalls
           /\ fetchResult' = slot.fetchResult
           /\ result' = slot.result
           /\ failure' = slot.failure
    /\ sched' = [sched EXCEPT !.cur = j,
                              !.slots = [@ EXCEPT ![sched.cur] = Snapshot, ![j] = Running]]
    /\ UNCHANGED <<config, wire>>

\* the executor resumes some other call
SwitchCall == \E j \in CallIds : Switch(j)

ConcAppleRespond == AppleRespondWith(ConcAppleOutcomes)

ConcGoogleRespond == GoogleRespondWith(ConcGoogleOutcomes)

ConcNext ==
    \/ ValidateApple
    \/ ConcAppleRespond
    \/ ValidateGoogle
    \/ GoogleTokenRespond
    \/ ConcGoogleRespond
    \/ SwitchCall

ConcSpec == ConcInit /\ [][ConcNext]_vars

----------------------------------------------------------------------------
(* C19 *)

\* call i as it stands
CallState(i) == IF i = sched.cur THEN Snapshot ELSE sched.slots[i]

\* the verdict of a validate call that runs alone with this validator, this
\* receipt and this clock, when its fetch returns fetched (Pending: the
\* payload did not decode and nothing was fetched)
AloneVerdict(validator, unity_receipt, now_ms, fetched) ==
    IF unity_receipt.store = "AppleAppStore"
    THEN IF IsErr(fetched) THEN fetched
         ELSE Ok(ValidateAppleArm(fetched.val, unity_receipt.transaction_id, now_ms))
    ELSE IF ~IsOk(fetched) THEN Ok(PurchaseResponse(FALSE, None))
         ELSE ValidateGoogleArm(fetched.val,
                                DecodeGoogle(unity_receipt.payload).val.sku_type, now_ms)

\* what the fetch of a call returns when it runs alone and the server sends
\* the call's last answer
AloneFetched(validator, unity_receipt, call) ==
    LET last == call.answers[Len(call.answers)]
    IN  IF unity_receipt.store = "AppleAppStore"
        THEN IF IsNone(validator.secret) THEN IsErr(call.fetchResult) /\ call.answers = <<>>
             ELSE IF last.kind = "body" THEN call.fetchResult.val.status = last.status
             ELSE IsErr(call.fetchResult)
        ELSE IF call.answers = <<>> THEN ~IsOk(call.fetchResult)
             ELSE IF last.kind = "body"
             THEN call.fetchResult =
                    BackfillProductId(last.body,
                                      Some(DecodeGoogle(unity_receipt.payload).val.data))
             ELSE IsErr(call.fetchResult)

\* C19: validate calls that run concurrently on one validator do not
\* interfere: the verdict of every call is the verdict it gives alone on its
\* receipt with the answers the server sent to it, and no call changes the
\* configuration of the validator.
C19_NoInterference ==
    sched # NoSched =>
        /\ config = sched.validator
        /\ \A i \in CallIds :
             LET call == CallState(i)
             IN  call.pc = "done" =>
                   /\ AloneFetched(sched.validator, sched.given[i], call)
                   /\ call.result =
                        AloneVerdict(sched.validator, sched.given[i], call.now,
                                     call.fetchResult)

\* two calls with different receipts got the same answer while the other
\* was waiting, and returned different verdicts
C19_Witness ==
    /\ sched # NoSched
    /\ sched.given[1].transaction_id = "t1"
    /\ sched.given[2].transaction_id = ""
    /\ sched.given[1].store = "AppleAppStore"
    /\ sched.given[2].store = "AppleAppStore"
    /\ CallState(1).pc = "done"
    /\ CallState(2).pc = "done"
    /\ CallState(1).fetchResult = CallState(2).fetchResult
    /\ IsOk(CallState(1).result)
    /\ CallState(1).result.val.valid
    /\ ~CallState(2).result.val.valid
    /\ Len(CallState(1).requests) = 2

----------------------------------------------------------------------------
(* C21 *)

\* the transaction id of the receipt is not empty and no record of the
\* response in hand carries it
NoMatchingRecord ==
    /\ receipt.transaction_id # ""
    /\ \A i \in 1..Len(Records) : Records[i].transaction_id # Some(receipt.transaction_id)

\* C21: for a Store A receipt whose non-empty transaction id matches no
\* record of receipt.in_app, validate returns Ok with valid = false and no
\* product id, whatever the status of the response and whatever records it
\* holds.
C21_NoMatchIsInvalid ==
    (AppleFetched /\ NoMatchingRecord) =>
        result = Ok(PurchaseResponse(FALSE, None))

\* status 0 and a live subscription of another transaction in the response
C21_Witness ==
    /\ AppleFetched
    /\ NoMatchingRecord
    /\ fetchResult.val.status = 0
    /\ receipt.transaction_id = "t2"
    /\ \E i \in 1..Len(Records) :
         /\ Live(i)
         /\ Records[i].transaction_id = Some("t1")
         /\ IsSome(Records[i].product_id)
    /\ result = Ok(PurchaseResponse(FALSE, None))

----------------------------------------------------------------------------
(* C22 *)

\* get_latest_receipt was applied to the response in hand
LatestReceiptSelected == pc = "eval_latest_receipt"

\* some record of the response in hand has an expiry that is a number
SomeParsableExpiry == \E i \in 1..Len(Records) : HasExpiry(Records[i])

\* C22: the most-recent selection over receipt.in_app never aborts: it
\* returns a record whenever there is one; and when some record has a
\* parsable expiry, zero and negative values included, the record selected
\* has a parsable expiry and no record has a strictly greater one.
C22_UnparsableNeverSelected ==
    LatestReceiptSelected =>
        /\ Len(Records) > 0 => IsSome(result)
        /\ SomeParsableExpiry =>
             /\ IsSome(result)
             /\ HasExpiry(Unwrap(result))
             /\ \A j \in 1..Len(Records) :
                  HasExpiry(Records[j]) => ExpiryOf(Records[j]) <= ExpiryOf(Unwrap(result))

----------------------------------------------------------------------------
(* C23 *)

\* the SKU type that the payload of the receipt names
PayloadSkuType == receipt.payload.sku_details.type

\* C23: for Store B the SKU type of the payload selects the request path
\* and the evaluator: "subs" gives the segment purchases/subscriptions and
\* the verdict of the subscription evaluator, "inapp" gives
\* purchases/products and the verdict of the package evaluator; the package
\* name, the product id and the purchase token of the URI are those of the
\* payload.
C23_SkuTypeSelects ==
    IsGoogle =>
        /\ \A i \in 1..Len(requests) :
             /\ requests[i].uri.package_name = receipt.payload.json.package_name
             /\ requests[i].uri.product_id = receipt.payload.json.product_id
             /\ requests[i].uri.token = receipt.payload.json.token
             /\ PayloadSkuType = "subs" => requests[i].uri.segment = "subscriptions"
             /\ PayloadSkuType = "inapp" => requests[i].uri.segment = "products"
             /\ PayloadSkuType \in {"subs", "inapp"}
        /\ (Done /\ IsOk(fetchResult) /\ PayloadSkuType = "subs") =>
             result = validate_google_subscription(fetchResult.val, now)
        /\ (Done /\ IsOk(fetchResult) /\ PayloadSkuType = "inapp") =>
             result = Ok(validate_google_package(fetchResult.val))

\* a product whose purchase was canceled, in a response that carries an
\* expiry still ahead: the package evaluator decided
C23_Witness ==
    /\ IsGoogle
    /\ Done
    /\ IsOk(fetchResult)
    /\ PayloadSkuType = "inapp"
    /\ receipt.payload.json.package_name = "com.other"
    /\ requests[1].uri.segment = "products"
    /\ requests[1].uri.package_name = "com.other"
    /\ requests[1].uri.product_id = "sku2"
    /\ requests[1].uri.token = "tok2"
    /\ fetchResult.val.purchase_state = Some(1)
    /\ GoogleHasExpiry(fetchResult.val)
    /\ GoogleExpiryOf(fetchResult.val) > now
    /\ result = Ok(PurchaseResponse(FALSE, fetchResult.val.product_id))

====
